---- MODULE Spec2Model ----
(***************************************************************************)
(* Reward_Manager_System: the reward aggregate (RewardMgr), the history    *)
(* buffer (RewardTrace), the list-only manager (RewardManager) and the     *)
(* three-level training driver (demo.py).                                  *)
(*                                                                         *)
(* Numbers.  Python floats are modelled as exact rationals [n, d] in       *)
(* lowest terms with d > 0; floating-point rounding is not modelled.       *)
(* math.nan is the record NaN.  Reward.log is a real logarithm; the model  *)
(* keeps its integer part (sign * floor(log_base(|raw| + 1))), and models  *)
(* exactly where Python raises instead of returning (base 0: ValueError,   *)
(* base 1: ZeroDivisionError).                                             *)
(* Optional arguments (x=None) are modelled as sequences: <<>> is None,    *)
(* <<v>> is the value v.                                                   *)
(***************************************************************************)
EXTENDS Integers, Sequences, FiniteSets, TLC

VARIABLES
    mgr,        \* the RewardMgr under test: [base, items, names]
    trace,      \* the RewardTrace under test: [maxlen, buf]
    pushed,     \* history: the snapshots pushed since the trace was last cleared
    last,       \* history: the last call, [op, err, name, args]
    ret,        \* the value the last call returned (queries), else None
    rm,         \* the RewardManager (reward_manager.py): [base, rewards]
    drv         \* the driver of demo.py: its position, traces and environment

vars == <<mgr, trace, pushed, last, ret, rm, drv>>

----------------------------------------------------------------------------
\* Bounds of the model

\* most terms held by the aggregate under test
MaxItems == 2
\* largest capacity a bounded trace is created with
MaxCap == 2

----------------------------------------------------------------------------
\* Exact rational arithmetic

None == <<>>
Some(x) == <<x>>

Abs(i) == IF i < 0 THEN -i ELSE i

RECURSIVE Gcd(_, _)
Gcd(a, b) == IF b = 0 THEN a ELSE Gcd(b, a % b)

Rat(n, d) ==
    LET g == Gcd(Abs(n), Abs(d))
        s == IF d < 0 THEN -1 ELSE 1
    IN  [n |-> (s * n) \div g, d |-> (s * d) \div g]

R(i) == [n |-> i, d |-> 1]
RAdd(a, b) == Rat(a.n * b.d + b.n * a.d, a.d * b.d)
RMul(a, b) == Rat(a.n * b.n, a.d * b.d)
RDiv(a, b) == Rat(a.n * b.d, a.d * b.n)
RAbs(a) == [n |-> Abs(a.n), d |-> a.d]
RLt(a, b) == a.n * b.d < b.n * a.d
RZero == R(0)
NaN == [n |-> 0, d |-> 0]

RECURSIVE Pow(_, _)
Pow(b, k) == IF k = 0 THEN 1 ELSE b * Pow(b, k - 1)

RECURSIVE RSum(_)
RSum(s) == IF s = <<>> THEN RZero ELSE RAdd(Head(s), RSum(Tail(s)))

\* largest k >= 0 with b^k * d <= n, for n >= d > 0 and b >= 2
RECURSIVE FloorLogGE1(_, _, _)
FloorLogGE1(b, n, d) == IF b * d <= n THEN 1 + FloorLogGE1(b, n, b * d) ELSE 0

\* smallest k >= 0 with b^k * d >= n
RECURSIVE CeilLogGE1(_, _, _)
CeilLogGE1(b, n, d) == IF d >= n THEN 0 ELSE 1 + CeilLogGE1(b, n, b * d)

\* int(math.log(q, b)) for a rational q > 0: the logarithm truncated toward
\* zero, as Python's int() truncates
TruncLog(b, q) ==
    IF q.n >= q.d THEN FloorLogGE1(b, q.n, q.d) ELSE -FloorLogGE1(b, q.d, q.n)

\* floor(log_b(q)) for a rational q > 0
FloorLog(b, q) ==
    IF q.n >= q.d THEN FloorLogGE1(b, q.n, q.d) ELSE -CeilLogGE1(b, q.d, q.n)

\* 1e-9 is 1 / EpsDen
EpsDen == 1000000000

\* abs(value) < 1e-9, without overflow: |n| * EpsDen < d
IsTiny(v) == Abs(v.n) <= (v.d - 1) \div EpsDen

Max(a, b) == IF a >= b THEN a ELSE b

----------------------------------------------------------------------------
\* reward_system.py: Reward

NoErr == "none"
DuplicateName == "ValueError: Reward name already exists"
ZeroDivision == "ZeroDivisionError"
MathDomain == "ValueError: math domain error"
AttributeErr == "AttributeError"

\* Reward.__init__: _raw = param * (base ** rank)
Reward(rank, param, base, name) ==
    [rank |-> rank, param |-> param, base |-> base, name |-> name,
     raw |-> RMul(param, R(Pow(base, rank)))]

\* what math.log(x, base) raises for the bases of the model (x >= 1)
LogError(base) ==
    IF base <= 0 THEN MathDomain
    ELSE IF base = 1 THEN ZeroDivision
    ELSE NoErr

\* Reward.log, for base >= 2: sign * log(|raw| + 1, base), integer part
Reward_log(r) ==
    LET a == RAbs(r.raw)
        k == FloorLogGE1(r.base, a.n + a.d, a.d)
    IN  IF r.raw.n < 0 THEN R(-k) ELSE R(k)

----------------------------------------------------------------------------
\* reward_system.py: RewardMgr

EmptyDict == [k \in {} |-> RZero]

\* RewardMgr.__init__
RewardMgr(base) == [base |-> base, items |-> <<>>, names |-> EmptyDict]

\* the defaults of add and add_value: max_var = 1.0, mul = 1.5
Mgr_default_max_var == R(1)
Mgr_default_mul == Rat(3, 2)

Default(opt, d) == IF opt = None THEN d ELSE opt[1]

\* RewardMgr.add appending the term before it checks the name
Mgr_add_AppendFirst(m, rank, param, var, max_var, mul, name) ==
    LET mv == Default(max_var, Mgr_default_max_var)
        ml == Default(mul, Mgr_default_mul)
    IN  IF var # None /\ mv.n = 0
        THEN [m |-> m, err |-> ZeroDivision]
        ELSE
            LET p == IF var # None THEN RMul(param, RMul(RDiv(var[1], mv), ml))
                     ELSE param
                r == Reward(rank, p, m.base, name)
                m1 == [m EXCEPT !.items = Append(@, r)]
            IN  IF name # None /\ name[1] \in DOMAIN m.names
                THEN [m |-> m1, err |-> DuplicateName]
                ELSE IF name # None
                THEN [m |-> [m1 EXCEPT !.names = (name[1] :> r) @@ @],
                      err |-> NoErr]
                ELSE [m |-> m1, err |-> NoErr]

\* RewardMgr.add: the result aggregate and the exception raised, if any
Mgr_add(m, rank, param, var, max_var, mul, name) ==
    LET mv == Default(max_var, Mgr_default_max_var)
        ml == Default(mul, Mgr_default_mul)
    IN  IF var # None /\ mv.n = 0
        THEN [m |-> m, err |-> ZeroDivision]
        ELSE
            LET p == IF var # None THEN RMul(param, RMul(RDiv(var[1], mv), ml))
                     ELSE param
                r == Reward(rank, p, m.base, name)
            IN  IF name # None /\ name[1] \in DOMAIN m.names
                THEN [m |-> m, err |-> DuplicateName]
                ELSE IF name # None
                THEN [m |-> [m EXCEPT !.names = (name[1] :> r) @@ @,
                                      !.items = Append(@, r)],
                      err |-> NoErr]
                ELSE [m |-> [m EXCEPT !.items = Append(@, r)], err |-> NoErr]

\* the (rank, param) RewardMgr.add_value derives from value, for base # 0:
\* rank = max(0, int(math.log10(abs(value) / base)) + 1)
Mgr_decompose(value, base) ==
    IF IsTiny(value)
    THEN [rank |-> 0, param |-> RZero]
    ELSE
        LET rank == Max(0, TruncLog(10, RDiv(RAbs(value), R(base))) + 1)
        IN  [rank |-> rank, param |-> RDiv(value, R(Pow(base, rank)))]

\* RewardMgr.add_value
Mgr_add_value(m, value, var, max_var, mul, name) ==
    IF ~IsTiny(value) /\ m.base = 0
    THEN [m |-> m, err |-> ZeroDivision]
    ELSE
        LET rp == Mgr_decompose(value, m.base)
        IN  Mgr_add(m, rp.rank, rp.param, var, max_var, mul, name)

\* RewardMgr.total_raw
Mgr_total_raw(m) == RSum([i \in DOMAIN m.items |-> m.items[i].raw])

\* RewardMgr.total_log: [val, err]; each term's log raises for a base < 2
Mgr_total_log(m) ==
    IF m.items # <<>> /\ LogError(m.base) # NoErr
    THEN [val |-> RZero, err |-> LogError(m.base)]
    ELSE [val |-> RSum([i \in DOMAIN m.items |-> Reward_log(m.items[i])]), err |-> NoErr]

\* RewardMgr.clear emptying the term list only
Mgr_clear_ItemsOnly(m) == [m EXCEPT !.items = <<>>]

\* RewardMgr.clear
Mgr_clear(m) == [m EXCEPT !.items = <<>>, !.names = EmptyDict]

----------------------------------------------------------------------------
\* reward_system.py: RewardTrace

\* RewardTrace.__init__: deque(maxlen=maxlen)
RewardTrace(maxlen) == [maxlen |-> maxlen, buf |-> <<>>]

\* deque.append on a full deque dropping the new element instead of the oldest
Deque_append_KeepOldest(buf, maxlen, x) ==
    IF maxlen = None THEN Append(buf, x)
    ELSE IF Len(buf) >= maxlen[1] THEN buf
    ELSE Append(buf, x)

\* deque(maxlen).append: a full deque discards its oldest element
Deque_append(buf, maxlen, x) ==
    IF maxlen = None THEN Append(buf, x)
    ELSE IF maxlen[1] = 0 THEN buf
    ELSE IF Len(buf) = maxlen[1] THEN Append(Tail(buf), x)
    ELSE Append(buf, x)

\* the snapshot holding the aggregate's own _names dict instead of a new dict
Snapshot_SharedNames(m, raw, log) ==
    [raw |-> raw, log |-> log, shared |-> TRUE,
     named |-> [k \in DOMAIN m.names |-> m.names[k].raw]]

\* the record push builds: two floats and a new dict of name -> raw.
\* shared says whether "named" is the aggregate's _names object itself (never,
\* in this code: the comprehension builds a dict of the snapshot's own).
Snapshot(m, raw, log) ==
    [raw |-> raw, log |-> log, shared |-> FALSE,
     named |-> [k \in DOMAIN m.names |-> m.names[k].raw]]

\* RewardTrace.push: the record is built (total_log may raise) before the append
Trace_push(t, m) ==
    LET lg == Mgr_total_log(m)
    IN  IF lg.err # NoErr
        THEN [t |-> t, err |-> lg.err]
        ELSE [t |-> [t EXCEPT !.buf = Deque_append(@, t.maxlen,
                                         Snapshot(m, Mgr_total_raw(m), lg.val))],
              err |-> NoErr]

\* RewardTrace.clear
Trace_clear(t) == [t EXCEPT !.buf = <<>>]

\* rec["named"] as the program reads it now: a shared dict shows the
\* aggregate's current names
NamedOf(rec, m) ==
    IF rec.shared THEN [k \in DOMAIN m.names |-> m.names[k].raw] ELSE rec.named

\* the buffer as the program reads it, every record's "named" resolved
Records(t, m) ==
    [i \in DOMAIN t.buf |-> [raw |-> t.buf[i].raw, log |-> t.buf[i].log,
                             named |-> NamedOf(t.buf[i], m)]]

\* dict.get(k, default)
Get(d, k, default) == IF k \in DOMAIN d THEN d[k] ELSE default

\* RewardTrace.arrays over the records buf: the names' entries are unpacked
\* after "raw" and "log", so a name equal to one of them replaces it
Trace_arrays(buf) ==
    IF buf = <<>> THEN EmptyDict
    ELSE
        LET keys == DOMAIN buf[Len(buf)].named
        IN  [k \in {"raw", "log"} \cup keys |->
                IF k \in keys
                THEN [i \in DOMAIN buf |-> Get(buf[i].named, k, NaN)]
                ELSE IF k = "raw" THEN [i \in DOMAIN buf |-> buf[i].raw]
                ELSE [i \in DOMAIN buf |-> buf[i].log]]

\* all_names of to_reward_mgr
AllNames(buf) == UNION {DOMAIN buf[i].named : i \in DOMAIN buf}

\* the mean dividing by the number of records that hold the name
Trace_mean_SkipAbsent(buf, name) ==
    LET n == Cardinality({i \in DOMAIN buf : name \in DOMAIN buf[i].named})
    IN  RDiv(RSum([i \in DOMAIN buf |-> Get(buf[i].named, name, RZero)]), R(n))

\* total / n_steps of to_reward_mgr for one name
Trace_mean(buf, name) ==
    RDiv(RSum([i \in DOMAIN buf |-> Get(buf[i].named, name, RZero)]),
         R(Len(buf)))

\* the loop "for name in all_names: mgr.add_value(mean, name=name)", the names
\* taken in the order the set yields them; stops at the first exception
RECURSIVE Trace_add_means(_, _, _)
Trace_add_means(acc, buf, order) ==
    IF order = <<>> \/ acc.err # NoErr THEN acc
    ELSE Trace_add_means(
            Mgr_add_value(acc.m, Trace_mean(buf, Head(order)), None, None, None,
                          Some(Head(order))),
            buf, Tail(order))

\* RewardTrace.to_reward_mgr over the records buf; order is the iteration
\* order of the set all_names
Trace_to_reward_mgr(buf, base, order) ==
    IF buf = <<>> THEN [m |-> RewardMgr(base), err |-> NoErr]
    ELSE Trace_add_means([m |-> RewardMgr(base), err |-> NoErr], buf, order)

\* the sequences that list every element of the set S exactly once
Orders(S) ==
    {o \in [1..Cardinality(S) -> S] : \A x \in S : \E i \in DOMAIN o : o[i] = x}

----------------------------------------------------------------------------
\* reward_manager.py: PriorityReward, RewardManager

\* PriorityReward.__init__ with raw_value() = param * (base ** rank)
PriorityReward(rank, param, base) ==
    [rank |-> rank, param |-> param, base |-> base,
     raw |-> RMul(param, R(Pow(base, rank)))]

\* RewardManager.__init__
RewardManager(base) == [base |-> base, rewards |-> <<>>]

\* the defaults of add_reward and add_value: max_var_value = 1.0, multiplier = 1.0
RM_default_max_var == R(1)
RM_default_mul == R(1)

\* RewardManager.add_reward
RM_add_reward(r, rank, param, var, max_var, mul) ==
    LET mv == Default(max_var, RM_default_max_var)
        ml == Default(mul, RM_default_mul)
    IN  IF var = None
        THEN [m |-> [r EXCEPT !.rewards =
                        Append(@, PriorityReward(rank, param, r.base))],
              err |-> NoErr]
        ELSE IF mv.n = 0
        THEN [m |-> r, err |-> ZeroDivision]
        ELSE [m |-> [r EXCEPT !.rewards =
                        Append(@, PriorityReward(rank,
                                     RMul(param, RMul(RDiv(var[1], mv), ml)),
                                     r.base))],
              err |-> NoErr]

\* the (rank, param) RewardManager.add_value derives, for base # 0:
\* rank = max(0, int(math.log10(abs_value / base) + 1)); log10(q) + 1 is
\* log10(10 * q)
RM_decompose(value, base) ==
    IF IsTiny(value)
    THEN [rank |-> 0, param |-> RZero]
    ELSE
        LET q == RDiv(RAbs(value), R(base))
            rank == Max(0, TruncLog(10, RMul(q, R(10))))
        IN  [rank |-> rank, param |-> RDiv(value, R(Pow(base, rank)))]

\* RewardManager.add_value
RM_add_value(r, value, var, max_var, mul) ==
    IF ~IsTiny(value) /\ r.base = 0
    THEN [m |-> r, err |-> ZeroDivision]
    ELSE
        LET rp == RM_decompose(value, r.base)
        IN  RM_add_reward(r, rp.rank, rp.param, var, max_var, mul)

\* RewardManager.total_value(False)
RM_total_value(r) == RSum([i \in DOMAIN r.rewards |-> r.rewards[i].raw])

----------------------------------------------------------------------------
\* The calls on the aggregate and the trace under test

\* the arguments of an add (rank, param) or an add_value (value)
Args(rank, param, value, var, max_var, mul) ==
    [rank |-> rank, param |-> param, value |-> value,
     var |-> var, max_var |-> max_var, mul |-> mul]

Call(op, err, name, args) == [op |-> op, err |-> err, name |-> name, args |-> args]

\* mgr = RewardMgr(base=b)
NewMgr(b) ==
    /\ mgr' = RewardMgr(b)
    /\ last' = Call("RewardMgr", NoErr, None, None)
    /\ ret' = None
    /\ UNCHANGED <<trace, pushed, rm, drv>>

\* mgr.add(rank, param, var, max_var, mul, name)
Add(rank, param, var, max_var, mul, name) ==
    LET r == Mgr_add(mgr, rank, param, var, max_var, mul, name)
    IN  /\ mgr' = r.m
        /\ last' = Call("add", r.err, name,
                        Args(Some(rank), Some(param), None, var, max_var, mul))
        /\ ret' = None
        /\ UNCHANGED <<trace, pushed, rm, drv>>

\* mgr.add_value(value, var, max_var, mul, name)
AddValue(value, var, max_var, mul, name) ==
    LET r == Mgr_add_value(mgr, value, var, max_var, mul, name)
    IN  /\ mgr' = r.m
        /\ last' = Call("add_value", r.err, name,
                        Args(None, None, Some(value), var, max_var, mul))
        /\ ret' = None
        /\ UNCHANGED <<trace, pushed, rm, drv>>

\* mgr.clear()
Clear ==
    /\ mgr' = Mgr_clear(mgr)
    /\ last' = Call("clear", NoErr, None, None)
    /\ ret' = None
    /\ UNCHANGED <<trace, pushed, rm, drv>>

\* the record of the aggregate as it is now, by value
Pushed(m) ==
    [raw |-> Mgr_total_raw(m), log |-> Mgr_total_log(m).val,
     named |-> [k \in DOMAIN m.names |-> m.names[k].raw]]

\* trace.push(mgr)
Push ==
    LET r == Trace_push(trace, mgr)
    IN  /\ trace' = r.t
        /\ pushed' = IF r.err = NoErr THEN Append(pushed, Pushed(mgr)) ELSE pushed
        /\ last' = Call("push", r.err, None, None)
        /\ ret' = None
        /\ UNCHANGED <<mgr, rm, drv>>

\* trace.clear()
TraceClear ==
    /\ trace' = Trace_clear(trace)
    /\ pushed' = <<>>
    /\ last' = Call("trace.clear", NoErr, None, None)
    /\ ret' = None
    /\ UNCHANGED <<mgr, rm, drv>>

\* trace.arrays()
Arrays ==
    /\ ret' = Trace_arrays(Records(trace, mgr))
    /\ last' = Call("arrays", NoErr, None, None)
    /\ UNCHANGED <<mgr, trace, pushed, rm, drv>>

\* trace.to_reward_mgr(base=b)
ToRewardMgr(b, order) ==
    LET r == Trace_to_reward_mgr(Records(trace, mgr), b, order)
    IN  /\ ret' = IF r.err = NoErr THEN r.m ELSE None
        /\ last' = Call("to_reward_mgr", r.err, None, None)
        /\ UNCHANGED <<mgr, trace, pushed, rm, drv>>

----------------------------------------------------------------------------
\* Specification of the aggregate alone: construction, add, add_value, clear

Bases == {0, 1, 10}
Names == {"a", "raw"}
NameOpts == {None} \cup {Some(n) : n \in Names}
Ranks == {2}
Params == {R(-3)}
Values == {RZero, R(50)}
VarOpts == {Some(R(1))}
MaxVarOpts == {None, Some(RZero)}

\* the driver before demo.py runs
DrvIdle ==
    [pc |-> "idle", ep_idx |-> 0, game_idx |-> 0, env |-> None, obj |-> None,
     step_trace |-> None, game_trace |-> None, episode_hist |-> None,
     final_step_trace |-> None, final_game_trace |-> None, exc |-> NoErr]

InitMgr ==
    /\ mgr \in {RewardMgr(b) : b \in Bases}
    /\ trace = RewardTrace(None)
    /\ pushed = <<>>
    /\ last = Call("init", NoErr, None, None)
    /\ ret = None
    /\ rm = RewardManager(10)
    /\ drv = DrvIdle

NextMgr ==
    \/ \E b \in Bases : NewMgr(b)
    \/ \E rank \in Ranks, param \in Params, var \in VarOpts,
          mv \in MaxVarOpts, name \in NameOpts :
            /\ Add(rank, param, var, mv, None, name)
            /\ Len(mgr'.items) <= MaxItems
    \/ \E value \in Values, name \in NameOpts :
            /\ AddValue(value, None, None, None, name)
            /\ Len(mgr'.items) <= MaxItems
    \/ Clear

SpecMgr == InitMgr /\ [][NextMgr]_vars

----------------------------------------------------------------------------
\* Claims on the aggregate (SpecMgr)

\* the last call was an add or add_value naming a name registered before it
DuplicateCall ==
    /\ last'.op \in {"add", "add_value"}
    /\ last'.name # None
    /\ last'.name[1] \in DOMAIN mgr.names

\* the arithmetic on the last call's own arguments raises nothing: var / max_var
\* has a non-zero divisor and add_value's abs(value) / base has one
ArithmeticDefined(c, base) ==
    /\ c.args.var = None \/ Default(c.args.max_var, Mgr_default_max_var).n # 0
    /\ c.op = "add_value" => (IsTiny(c.args.value[1]) \/ base # 0)

C7_NoTermWithInvalidBase ==
    \A i \in DOMAIN mgr.items : mgr.items[i].base >= 2

\* C8: each registered name maps to exactly one term of the sequence, no two
\* terms carry the same name, and after clear() the sequence and the registry
\* are both empty.
C8_NamesMatchItems ==
    /\ \A n \in DOMAIN mgr.names :
          /\ Cardinality({i \in DOMAIN mgr.items : mgr.items[i].name = Some(n)}) = 1
          /\ \E i \in DOMAIN mgr.items : mgr.items[i] = mgr.names[n]
          /\ mgr.names[n].name = Some(n)
    /\ \A i, j \in DOMAIN mgr.items :
          (i # j /\ mgr.items[i].name # None) => mgr.items[i].name # mgr.items[j].name
    /\ \A i \in DOMAIN mgr.items :
          mgr.items[i].name # None => mgr.items[i].name[1] \in DOMAIN mgr.names
    /\ last.op = "clear" => (mgr.items = <<>> /\ DOMAIN mgr.names = {})

\* two named terms are registered after a failed add
C8_Witness ==
    /\ Cardinality(DOMAIN mgr.names) = 2
    /\ Len(mgr.items) = 2
    /\ last.err = DuplicateName

----------------------------------------------------------------------------
\* Specification of the trace with the aggregate that is pushed into it

TraceBases == {1, 10}
TraceValues == {R(6)}
TraceNameOpts == {Some(n) : n \in Names}
ToBases == {0, 10}
Capacities == {None} \cup {Some(c) : c \in 0..MaxCap}

InitTrace ==
    /\ mgr = RewardMgr(10)
    /\ trace \in {RewardTrace(c) : c \in Capacities}
    /\ pushed = <<>>
    /\ last = Call("init", NoErr, None, None)
    /\ ret = None
    /\ rm = RewardManager(10)
    /\ drv = DrvIdle

NextTrace ==
    \/ \E b \in TraceBases : NewMgr(b)
    \/ /\ Add(1, R(-2), None, None, None, Some("a"))
       /\ Len(mgr'.items) <= MaxItems
    \/ \E value \in TraceValues, name \in TraceNameOpts :
            /\ AddValue(value, None, None, None, name)
            /\ Len(mgr'.items) <= MaxItems
    \/ Clear
    \/ Len(pushed) < MaxCap /\ Push
    \/ TraceClear
    \/ Arrays
    \/ \E b \in ToBases, order \in Orders(AllNames(Records(trace, mgr))) :
            ToRewardMgr(b, order)

SpecTrace == InitTrace /\ [][NextTrace]_vars

----------------------------------------------------------------------------
\* Claims on the trace (SpecTrace)

Min(a, b) == IF a <= b THEN a ELSE b

\* the last k elements of s
LastK(s, k) == [i \in 1..k |-> s[Len(s) - k + i]]

C3_SnapshotsByValue ==
    [][last'.op \in {"add", "add_value", "clear"} =>
        Records(trace, mgr)' = Records(trace, mgr)]_vars

\* the aggregate was changed after its snapshot was pushed: the newest snapshot
\* no longer shows the aggregate's names
C3_Witness ==
    /\ last.op \in {"add", "add_value", "clear"}
    /\ last.err = NoErr
    /\ trace.buf # <<>>
    /\ trace.buf[Len(trace.buf)].named # Pushed(mgr).named
    /\ DOMAIN trace.buf[Len(trace.buf)].named # {}

\* C4: to_reward_mgr of an empty trace returns an aggregate with no terms and
\* no names; otherwise the aggregate has exactly one named term for each name
\* found in any snapshot, its raw value the sum of the name's raw values over
\* all snapshots (0 where absent) divided by the number of snapshots.
C4_CompressIsMean ==
    (last.op = "to_reward_mgr" /\ last.err = NoErr) =>
        LET buf == Records(trace, mgr)
        IN  IF buf = <<>>
            THEN ret.items = <<>> /\ DOMAIN ret.names = {}
            ELSE /\ DOMAIN ret.names = AllNames(buf)
                 /\ Len(ret.items) = Cardinality(AllNames(buf))
                 /\ \A n \in AllNames(buf) :
                       /\ Cardinality({i \in DOMAIN ret.items :
                                          ret.items[i].name = Some(n)}) = 1
                       /\ \A i \in DOMAIN ret.items :
                             ret.items[i].name = Some(n) =>
                                RMul(ret.items[i].raw, R(Len(buf)))
                                  = RSum([j \in DOMAIN buf |->
                                            Get(buf[j].named, n, RZero)])

\* a trace of two or more snapshots, one of them lacking a name another has,
\* was compressed
C4_Witness ==
    /\ last.op = "to_reward_mgr"
    /\ last.err = NoErr
    /\ Len(trace.buf) >= 2
    /\ \E i, j \in DOMAIN trace.buf :
          \E n \in DOMAIN trace.buf[i].named :
              /\ n \notin DOMAIN trace.buf[j].named
              /\ trace.buf[i].named[n].n # 0
    /\ Len(ret.items) >= 2

\* C5: arrays() of an empty trace is the empty mapping; otherwise its keys are
\* "raw", "log" and the names of the newest snapshot, every sequence has one
\* entry per snapshot, "raw" and "log" hold the snapshots' raw and log totals
\* and each name's sequence holds the name's raw value or NaN.
C5_ArraysContract ==
    last.op = "arrays" =>
        LET buf == Records(trace, mgr)
        IN  IF buf = <<>>
            THEN DOMAIN ret = {}
            ELSE /\ DOMAIN ret = {"raw", "log"} \cup DOMAIN buf[Len(buf)].named
                 /\ \A k \in DOMAIN ret : Len(ret[k]) = Len(buf)
                 /\ ret["raw"] = [i \in DOMAIN buf |-> buf[i].raw]
                 /\ ret["log"] = [i \in DOMAIN buf |-> buf[i].log]
                 /\ \A n \in DOMAIN buf[Len(buf)].named :
                       ret[n] = [i \in DOMAIN buf |-> Get(buf[i].named, n, NaN)]

----------------------------------------------------------------------------
\* The calls on the RewardManager of reward_manager.py

\* rm = RewardManager(base=b)
NewRM(b) ==
    /\ rm' = RewardManager(b)
    /\ last' = Call("RewardManager", NoErr, None, None)
    /\ ret' = None
    /\ UNCHANGED <<mgr, trace, pushed, drv>>

\* rm.add_reward(rank, param, associated_var, max_var_value, multiplier)
RMAddReward(rank, param, var, max_var, mul) ==
    LET r == RM_add_reward(rm, rank, param, var, max_var, mul)
    IN  /\ rm' = r.m
        /\ last' = Call("RewardManager.add_reward", r.err, None,
                        Args(Some(rank), Some(param), None, var, max_var, mul))
        /\ ret' = None
        /\ UNCHANGED <<mgr, trace, pushed, drv>>

\* rm.add_value(value, associated_var, max_var_value, multiplier)
RMAddValue(value, var, max_var, mul) ==
    LET r == RM_add_value(rm, value, var, max_var, mul)
    IN  /\ rm' = r.m
        /\ last' = Call("RewardManager.add_value", r.err, None,
                        Args(None, None, Some(value), var, max_var, mul))
        /\ ret' = None
        /\ UNCHANGED <<mgr, trace, pushed, drv>>

----------------------------------------------------------------------------
\* Specification of one add or add_value on a new RewardMgr or RewardManager:
\* the term they store for each input

DBases == {1, 2, 10}
DRanks == {0, 2, 3}
DParams == {R(5), R(1), R(-3)}
DValues ==
    {RZero, Rat(1, 2000000000), Rat(1, 2), R(1), R(5), R(8), R(10), R(99),
     R(100), R(-300), R(500), R(1000)}
DVarOpts == {None, Some(Rat(9, 2)), Some(R(15))}
DMaxVarOpts == {None, Some(R(5)), Some(R(30))}
DMulOpts == {None, Some(Rat(3, 2)), Some(R(2))}

InitDecomp ==
    /\ mgr = RewardMgr(10)
    /\ trace = RewardTrace(None)
    /\ pushed = <<>>
    /\ last = Call("init", NoErr, None, None)
    /\ ret = None
    /\ rm = RewardManager(10)
    /\ drv = DrvIdle

NextDecomp ==
    \/ \E b \in DBases : NewMgr(b) /\ rm.rewards = <<>>
    \/ \E rank \in DRanks, param \in DParams, var \in DVarOpts,
          mv \in DMaxVarOpts, ml \in DMulOpts :
            /\ mgr.items = <<>> /\ rm.rewards = <<>>
            /\ Add(rank, param, var, mv, ml, None)
    \/ \E value \in DValues, var \in DVarOpts, mv \in DMaxVarOpts,
          ml \in DMulOpts :
            /\ mgr.items = <<>> /\ rm.rewards = <<>>
            /\ AddValue(value, var, mv, ml, None)
    \/ \E b \in DBases : NewRM(b) /\ mgr.items = <<>>
    \/ \E rank \in DRanks, param \in DParams, var \in DVarOpts,
          mv \in DMaxVarOpts, ml \in DMulOpts :
            /\ mgr.items = <<>> /\ rm.rewards = <<>>
            /\ RMAddReward(rank, param, var, mv, ml)
    \/ \E value \in DValues, var \in DVarOpts, mv \in DMaxVarOpts,
          ml \in DMulOpts :
            /\ mgr.items = <<>> /\ rm.rewards = <<>>
            /\ RMAddValue(value, var, mv, ml)

SpecDecomp == InitDecomp /\ [][NextDecomp]_vars

----------------------------------------------------------------------------
\* Claims on the stored term (SpecDecomp)

\* the term the last add / add_value / add_reward stored
Stored ==
    IF last.op \in {"add", "add_value"}
    THEN mgr.items[Len(mgr.items)]
    ELSE rm.rewards[Len(rm.rewards)]

StoringOps ==
    {"add", "add_value", "RewardManager.add_reward", "RewardManager.add_value"}

\* C6: with an auxiliary variable a the stored param is the given param times
\* (a / max_auxiliary) * multiplier, max_auxiliary and multiplier being 1.0
\* when omitted, and without one the param is stored unscaled; so an
\* add_value(value) contributes value * (a / max_auxiliary) * multiplier
\* (or value) to total(raw).
C6_ScaledByAuxiliary ==
    (last.op \in StoringOps /\ last.err = NoErr) =>
        LET a == last.args
            scale == IF a.var = None THEN R(1)
                     ELSE RMul(RDiv(a.var[1], Default(a.max_var, R(1))),
                               Default(a.mul, R(1)))
        IN  IF a.value = None
            THEN Stored.param = RMul(a.param[1], scale)
            ELSE IF IsTiny(a.value[1])
            THEN Stored.raw = RZero
            ELSE Stored.raw = RMul(a.value[1], scale)

\* the (rank, param) the decomposition rule gives: the logarithm in the
\* aggregate's own base, floored
ClaimedDecomposition(value, base) ==
    IF IsTiny(value)
    THEN [rank |-> 0, param |-> RZero]
    ELSE
        LET rank == Max(0, FloorLog(base, RDiv(RAbs(value), R(base))) + 1)
        IN  [rank |-> rank, param |-> RDiv(value, R(Pow(base, rank)))]

\* C9: for a base >= 2, add_value without auxiliary scaling stores (0, 0) when
\* |value| < 1e-9 and otherwise rank = max(0, floor(log_base(|value| / base)) + 1)
\* and param = value / base^rank; a value with 1e-9 <= |value| < base gets
\* rank 0 and param = value.
C9_Decomposition ==
    (/\ last.op \in {"add_value", "RewardManager.add_value"}
     /\ last.err = NoErr
     /\ last.args.var = None
     /\ Stored.base >= 2) =>
        LET c == ClaimedDecomposition(last.args.value[1], Stored.base)
        IN  /\ Stored.rank = c.rank
            /\ Stored.param = c.param
            /\ (~IsTiny(last.args.value[1])
                /\ RLt(RAbs(last.args.value[1]), R(Stored.base))) =>
                    (Stored.rank = 0 /\ Stored.param = last.args.value[1])

----------------------------------------------------------------------------
\* simple_env.py and demo.py: the environment and the three-level driver.
\* The environment's position enters the reward only through
\* nonlinear_closeness = (1 - distance / max_distance) ** 0.5, a square root
\* of square roots; the model keeps that number in the state and lets reset
\* and step draw it, as they draw the speed and the direction error, which
\* the code takes from random.uniform.

N_EPISODE == 60
EP_LEN == 50

EnvSpeeds == {RZero, Rat(5, 2), R(5)}
EnvErrors == {R(-30), RZero, R(30)}
EnvCloseness == {RZero, Rat(1, 2), R(1)}
EnvNoise == {R(-5), RZero, R(5)}

\* SimpleNavigationEnv.reset: the states it can draw
Env_reset ==
    {[speed |-> s, direction_error |-> e, closeness |-> c] :
        s \in EnvSpeeds, e \in EnvErrors, c \in EnvCloseness}

\* np.clip(x, -30, 30)
Clip30(x) == IF RLt(x, R(-30)) THEN R(-30) ELSE IF RLt(R(30), x) THEN R(30) ELSE x

\* SimpleNavigationEnv.step: the states it can move env to
Env_step(env) ==
    {[speed |-> s, direction_error |-> Clip30(RAdd(env.direction_error, d)),
      closeness |-> c] : s \in EnvSpeeds, d \in EnvNoise, c \in EnvCloseness}

\* SimpleNavigationEnv.calculate_reward: returns the tuple
\* (manager.total_value(False), manager), manager a RewardManager
Env_calculate_reward(env) ==
    LET m0 == RewardManager(10)
        m1 == RM_add_reward(m0, 2, R(5), None, None, None).m
        m2 == RM_add_reward(m1, 3, R(1), Some(env.speed), Some(R(5)),
                            Some(Rat(3, 2))).m
        m3 == RM_add_reward(m2, 2, R(-3), Some(RAbs(env.direction_error)),
                            Some(R(30)), Some(R(2))).m
        m4 == RM_add_reward(m3, 3, R(5), Some(env.closeness), Some(R(1)),
                            Some(R(2))).m
    IN  [cls |-> "tuple", total |-> RM_total_value(m4), manager |-> m4]

\* RewardTrace.push(obj) for any Python object: mgr.total_raw() is looked up
\* first, and only a RewardMgr has it
Py_push(t, obj) ==
    IF obj.cls = "RewardMgr" THEN Trace_push(t, obj.val)
    ELSE [t |-> t, err |-> AttributeErr]

\* env = SimpleNavigationEnv(); episode_hist = RewardTrace();
\* game_trace = RewardTrace()
InitDriver ==
    /\ mgr = RewardMgr(10)
    /\ trace = RewardTrace(None)
    /\ pushed = <<>>
    /\ last = Call("init", NoErr, None, None)
    /\ ret = None
    /\ rm = RewardManager(10)
    /\ \E e \in Env_reset :
          drv = [DrvIdle EXCEPT !.pc = "episode", !.env = e,
                                !.episode_hist = RewardTrace(None),
                                !.game_trace = RewardTrace(None)]

\* for ep_idx in range(N_EPISODE): game_trace.clear()
DrvEpisode ==
    /\ drv.pc = "episode"
    /\ drv.ep_idx < N_EPISODE
    /\ drv' = [drv EXCEPT !.pc = "game", !.game_idx = 0,
                          !.game_trace = Trace_clear(@)]
    /\ UNCHANGED <<mgr, trace, pushed, last, ret, rm>>

\* for game_idx in range(EP_LEN): run_episode: trace = RewardTrace(); env.reset()
DrvGame ==
    /\ drv.pc = "game"
    /\ drv.game_idx < EP_LEN
    /\ \E e \in Env_reset :
          drv' = [drv EXCEPT !.pc = "step", !.env = e,
                             !.step_trace = RewardTrace(None)]
    /\ UNCHANGED <<mgr, trace, pushed, last, ret, rm>>

\* one pass of run_episode's loop: env.step(...), then
\* trace.push(env.calculate_reward()); the push raises, nothing catches it and
\* the program ends there
DrvStep ==
    /\ drv.pc = "step"
    /\ \E e \in Env_step(drv.env) :
          LET obj == Env_calculate_reward(e)
              r == Py_push(drv.step_trace, obj)
          IN  drv' = [drv EXCEPT !.env = e, !.obj = obj, !.step_trace = r.t,
                                 !.exc = r.err,
                                 !.pc = IF r.err = NoErr THEN "pushed"
                                        ELSE "raised"]
    /\ UNCHANGED <<mgr, trace, pushed, last, ret, rm>>

NextDriver == DrvEpisode \/ DrvGame \/ DrvStep

SpecDriver == InitDriver /\ [][NextDriver]_vars

\* C10: when the driver has ended, the step-level trace it retained is not
\* empty, the game-level trace it retained holds the EP_LEN snapshots of the
\* last episode and the episode-level trace holds N_EPISODE snapshots.
C10_DriverRetainsFinalLevels ==
    drv.pc \in {"done", "raised"} =>
        /\ drv.final_step_trace # None
        /\ drv.final_game_trace # None
        /\ Len(drv.episode_hist.buf) = N_EPISODE

====
